---- MODULE Spec2Model ----
(***************************************************************************)
(* Model of core/platform/auth/gae_auth_services.py: the association store *)
(* between GAE auth IDs and Oppia user IDs.                                *)
(*                                                                         *)
(* Auth IDs are 1..NumAuthIds, user IDs are 1..NumUserIds, Python's None   *)
(* is 0.  A datastore kind is a function from its keys to an entity; a key *)
(* with no entity holds NoIdentifiers / NoDetails (exists = FALSE).        *)
(* Timestamps are readings of the clock `now` (0 is an unset timestamp):   *)
(* entities that pre-exist were written at 1, the service starts at 2 and  *)
(* the clock advances after every call that wrote a record.                *)
(***************************************************************************)
EXTENDS Integers, Sequences, FiniteSets, TLC

NumAuthIds == 2
NumUserIds == 2
MaxBatch == 2
MaxClock == 4

None == 0
AuthIds == 1..NumAuthIds
UserIds == 1..NumUserIds
AuthIdUserIdPair == AuthIds \X UserIds

VARIABLES
    identifiers,   \* UserIdentifiersModel kind: auth_id -> entity
    details,       \* UserAuthDetailsModel kind: user_id -> entity
    now,           \* datetime.datetime.utcnow()
    last,          \* the last completed mutating call and its outcome
    prev,          \* the mutating call completed before it
    identifiers0,  \* UserIdentifiersModel kind before the last mutating call
    details0,      \* UserAuthDetailsModel kind before the last mutating call
    failed,        \* the pair of the first associate call that raised
    dupBatch,      \* a batch repeating an auth ID or a user ID was written
    gae_user,      \* users.get_current_user(): None when nobody is signed in
    headers,       \* response.headers of the response being built
    headers0,      \* response.headers before the last destroy_auth_session
    utcnow_reads,  \* the utcnow() readings of the last destroy_auth_session
    procs          \* the requests that run a call statement by statement

histVars == <<last, prev, identifiers0, details0, failed, dupBatch>>

storeVars == <<identifiers, details, histVars>>

sessionVars == <<gae_user, headers, headers0, utcnow_reads>>

vars == <<storeVars, now, sessionVars, procs>>

----------------------------------------------------------------------------
(* Storage layer: base_models.BaseModel and the two auth model classes.    *)

NoIdentifiers ==
    [exists |-> FALSE, user_id |-> None, deleted |-> FALSE,
     created_on |-> 0, last_updated |-> 0]

NoDetails ==
    [exists |-> FALSE, gae_id |-> None, deleted |-> FALSE,
     created_on |-> 0, last_updated |-> 0]

\* UserIdentifiersModel(id=auth_id, user_id=user_id)
UserIdentifiersModel(user_id) ==
    [exists |-> TRUE, user_id |-> user_id, deleted |-> FALSE,
     created_on |-> 0, last_updated |-> 0]

\* UserAuthDetailsModel(id=user_id, gae_id=auth_id)
UserAuthDetailsModel(gae_id) ==
    [exists |-> TRUE, gae_id |-> gae_id, deleted |-> FALSE,
     created_on |-> 0, last_updated |-> 0]

\* cls.get_by_id(entity_id): the stored entity, tombstoned or not; no entity
\* is stored under None
get_by_id(kind, entity_id, none) ==
    IF entity_id \in DOMAIN kind THEN kind[entity_id] ELSE none

\* BaseModel.get(entity_id, strict=False): a tombstoned entity reads as None
get(kind, entity_id, none) ==
    LET entity == get_by_id(kind, entity_id, none)
    IN  IF entity.exists /\ entity.deleted THEN none ELSE entity

\* BaseModel.get_multi(entity_ids, include_deleted)
get_multi(kind, entity_ids, include_deleted, none) ==
    [i \in DOMAIN entity_ids |->
        IF include_deleted THEN get_by_id(kind, entity_ids[i], none)
        ELSE get(kind, entity_ids[i], none)]

\* UserIdentifiersModel.get_by_gae_id(gae_id)
get_by_gae_id(ids, gae_id) == get_by_id(ids, gae_id, NoIdentifiers)

\* UserIdentifiersModel.get_by_user_id(user_id): the keys the query
\* cls.query(cls.user_id == user_id) matches; .get() returns one of them.
get_by_user_id(ids, user_id) ==
    {a \in DOMAIN ids : ids[a].exists /\ ids[a].user_id = user_id}

\* BaseModel.update_timestamps()
update_timestamps(model, t) ==
    [model EXCEPT !.created_on = IF @ = 0 THEN t ELSE @,
                  !.last_updated = t]

\* BaseModel.put()
put(kind, entity_id, model) == [kind EXCEPT ![entity_id] = model]

\* BaseModel.put_multi(models): entries are <<key, model>>, written in order
RECURSIVE put_multi(_, _)
put_multi(kind, models) ==
    IF models = <<>> THEN kind
    ELSE put_multi(put(kind, models[1][1], models[1][2]), Tail(models))

----------------------------------------------------------------------------
(* Lookups.                                                                *)

get_auth_id_from_user_id(dets, user_id) ==
    LET assoc_by_user_id_model == get(dets, user_id, NoDetails)
    IN  IF ~assoc_by_user_id_model.exists THEN None
        ELSE assoc_by_user_id_model.gae_id

\* Variant: the batched lookup also reads tombstoned models
get_multi_auth_ids_include_deleted(dets, user_ids) ==
    LET models == get_multi(dets, user_ids, TRUE, NoDetails)
    IN  [i \in DOMAIN user_ids |->
            IF ~models[i].exists THEN None ELSE models[i].gae_id]

get_multi_auth_ids_from_user_ids(dets, user_ids) ==
    LET models == get_multi(dets, user_ids, FALSE, NoDetails)
    IN  [i \in DOMAIN user_ids |->
            IF ~models[i].exists THEN None ELSE models[i].gae_id]

\* Variant: a tombstoned UserIdentifiersModel reads as None
get_user_id_excludes_deleted(ids, auth_id) ==
    LET assoc_by_auth_id_model == get(ids, auth_id, NoIdentifiers)
    IN  IF ~assoc_by_auth_id_model.exists THEN None
        ELSE assoc_by_auth_id_model.user_id

get_user_id_from_auth_id(ids, auth_id) ==
    LET assoc_by_auth_id_model == get_by_gae_id(ids, auth_id)
    IN  IF ~assoc_by_auth_id_model.exists THEN None
        ELSE assoc_by_auth_id_model.user_id

\* Variant: the batched lookup does not read tombstoned models
get_multi_user_ids_exclude_deleted(ids, auth_ids) ==
    LET assoc_by_auth_id_models ==
            get_multi(ids, auth_ids, FALSE, NoIdentifiers)
    IN  [i \in DOMAIN auth_ids |->
            IF ~assoc_by_auth_id_models[i].exists THEN None
            ELSE assoc_by_auth_id_models[i].user_id]

get_multi_user_ids_from_auth_ids(ids, auth_ids) ==
    LET assoc_by_auth_id_models == get_multi(ids, auth_ids, TRUE, NoIdentifiers)
    IN  [i \in DOMAIN auth_ids |->
            IF ~assoc_by_auth_id_models[i].exists THEN None
            ELSE assoc_by_auth_id_models[i].user_id]

----------------------------------------------------------------------------
(* Exceptions: kind names the side that collided, items the colliding      *)
(* {key: existing value} entries the message lists.                        *)

NoException == [kind |-> "none", items |-> <<>>]

Exception(kind, items) == [kind |-> kind, items |-> items]

\* python_utils.ZIP(xs, ys)
ZIP(xs, ys) == [i \in DOMAIN xs |-> <<xs[i], ys[i]>>]

\* any(x is not None for x in xs)
any_not_None(xs) == \E i \in DOMAIN xs : xs[i] # None

----------------------------------------------------------------------------
(* Mutating operations, as functions of the two kinds and the clock.       *)

\* Variant: an existing UserAuthDetailsModel without gae_id is left as it is
associate_keeps_empty_details(ids, dets, auth_id_user_id_pair, t) ==
    LET auth_id == auth_id_user_id_pair[1]
        user_id == auth_id_user_id_pair[2]
        user_id_collision == get_user_id_from_auth_id(ids, auth_id)
        auth_id_collision == get_auth_id_from_user_id(dets, user_id)
        assoc_by_user_id_model == get(dets, user_id, NoDetails)
    IN  IF user_id_collision # None
        THEN [identifiers |-> ids, details |-> dets,
              raised |-> Exception("auth_id",
                                   <<<<auth_id, user_id_collision>>>>)]
        ELSE IF auth_id_collision # None
        THEN [identifiers |-> ids, details |-> dets,
              raised |-> Exception("user_id",
                                   <<<<user_id, auth_id_collision>>>>)]
        ELSE [identifiers |->
                  put(ids, auth_id,
                      update_timestamps(UserIdentifiersModel(user_id), t)),
              details |->
                  IF ~assoc_by_user_id_model.exists
                  THEN put(dets, user_id,
                           update_timestamps(UserAuthDetailsModel(auth_id), t))
                  ELSE dets,
              raised |-> NoException]

\* Variant: the user_id side is not checked for a collision
associate_without_user_id_check(ids, dets, auth_id_user_id_pair, t) ==
    LET auth_id == auth_id_user_id_pair[1]
        user_id == auth_id_user_id_pair[2]
        user_id_collision == get_user_id_from_auth_id(ids, auth_id)
        assoc_by_user_id_model == get(dets, user_id, NoDetails)
    IN  IF user_id_collision # None
        THEN [identifiers |-> ids, details |-> dets,
              raised |-> Exception("auth_id",
                                   <<<<auth_id, user_id_collision>>>>)]
        ELSE [identifiers |->
                  put(ids, auth_id,
                      update_timestamps(UserIdentifiersModel(user_id), t)),
              details |->
                  IF \/ ~assoc_by_user_id_model.exists
                     \/ assoc_by_user_id_model.gae_id = None
                  THEN put(dets, user_id,
                           update_timestamps(UserAuthDetailsModel(auth_id), t))
                  ELSE dets,
              raised |-> NoException]

\* Variant: the UserIdentifiersModel is written before the user_id side is
\* checked
associate_writes_before_user_id_check(ids, dets, auth_id_user_id_pair, t) ==
    LET auth_id == auth_id_user_id_pair[1]
        user_id == auth_id_user_id_pair[2]
        user_id_collision == get_user_id_from_auth_id(ids, auth_id)
        auth_id_collision == get_auth_id_from_user_id(dets, user_id)
        ids1 == put(ids, auth_id,
                    update_timestamps(UserIdentifiersModel(user_id), t))
        assoc_by_user_id_model == get(dets, user_id, NoDetails)
    IN  IF user_id_collision # None
        THEN [identifiers |-> ids, details |-> dets,
              raised |-> Exception("auth_id",
                                   <<<<auth_id, user_id_collision>>>>)]
        ELSE IF auth_id_collision # None
        THEN [identifiers |-> ids1, details |-> dets,
              raised |-> Exception("user_id",
                                   <<<<user_id, auth_id_collision>>>>)]
        ELSE [identifiers |-> ids1,
              details |->
                  IF \/ ~assoc_by_user_id_model.exists
                     \/ assoc_by_user_id_model.gae_id = None
                  THEN put(dets, user_id,
                           update_timestamps(UserAuthDetailsModel(auth_id), t))
                  ELSE dets,
              raised |-> NoException]

\* Variant: the user_id side is checked before the auth_id side
associate_checks_user_id_first(ids, dets, auth_id_user_id_pair, t) ==
    LET auth_id == auth_id_user_id_pair[1]
        user_id == auth_id_user_id_pair[2]
        user_id_collision == get_user_id_from_auth_id(ids, auth_id)
        auth_id_collision == get_auth_id_from_user_id(dets, user_id)
        assoc_by_user_id_model == get(dets, user_id, NoDetails)
    IN  IF auth_id_collision # None
        THEN [identifiers |-> ids, details |-> dets,
              raised |-> Exception("user_id",
                                   <<<<user_id, auth_id_collision>>>>)]
        ELSE IF user_id_collision # None
        THEN [identifiers |-> ids, details |-> dets,
              raised |-> Exception("auth_id",
                                   <<<<auth_id, user_id_collision>>>>)]
        ELSE [identifiers |->
                  put(ids, auth_id,
                      update_timestamps(UserIdentifiersModel(user_id), t)),
              details |->
                  IF \/ ~assoc_by_user_id_model.exists
                     \/ assoc_by_user_id_model.gae_id = None
                  THEN put(dets, user_id,
                           update_timestamps(UserAuthDetailsModel(auth_id), t))
                  ELSE dets,
              raised |-> NoException]

associate_auth_id_with_user_id(ids, dets, auth_id_user_id_pair, t) ==
    LET auth_id == auth_id_user_id_pair[1]
        user_id == auth_id_user_id_pair[2]
        user_id_collision == get_user_id_from_auth_id(ids, auth_id)
        auth_id_collision == get_auth_id_from_user_id(dets, user_id)
        assoc_by_auth_id_model ==
            update_timestamps(UserIdentifiersModel(user_id), t)
        assoc_by_user_id_model == get(dets, user_id, NoDetails)
    IN  IF user_id_collision # None
        THEN [identifiers |-> ids, details |-> dets,
              raised |-> Exception("auth_id",
                                   <<<<auth_id, user_id_collision>>>>)]
        ELSE IF auth_id_collision # None
        THEN [identifiers |-> ids, details |-> dets,
              raised |-> Exception("user_id",
                                   <<<<user_id, auth_id_collision>>>>)]
        ELSE [identifiers |-> put(ids, auth_id, assoc_by_auth_id_model),
              details |->
                  IF \/ ~assoc_by_user_id_model.exists
                     \/ assoc_by_user_id_model.gae_id = None
                  THEN put(dets, user_id,
                           update_timestamps(UserAuthDetailsModel(auth_id), t))
                  ELSE dets,
              raised |-> NoException]

\* Variant: the user_id side is checked after the UserIdentifiersModels are
\* written
associate_multi_checks_after_write(ids, dets, auth_id_user_id_pairs, t) ==
    LET auth_ids == [i \in DOMAIN auth_id_user_id_pairs |->
                        auth_id_user_id_pairs[i][1]]
        user_ids == [i \in DOMAIN auth_id_user_id_pairs |->
                        auth_id_user_id_pairs[i][2]]
        user_id_collisions == get_multi_user_ids_from_auth_ids(ids, auth_ids)
        auth_id_collisions == get_multi_auth_ids_from_user_ids(dets, user_ids)
        ids1 == put_multi(ids,
            [i \in DOMAIN auth_ids |->
                <<auth_ids[i],
                  update_timestamps(UserIdentifiersModel(user_ids[i]), t)>>])
        existing == get_multi(dets, user_ids, FALSE, NoDetails)
        assoc_by_user_id_models ==
            SelectSeq([i \in DOMAIN user_ids |->
                <<user_ids[i],
                  update_timestamps(UserAuthDetailsModel(auth_ids[i]), t),
                  ~existing[i].exists \/ existing[i].gae_id = None>>],
                LAMBDA c : c[3])
    IN  IF any_not_None(user_id_collisions)
        THEN [identifiers |-> ids, details |-> dets,
              raised |-> Exception("auth_id",
                  SelectSeq(ZIP(auth_ids, user_id_collisions),
                            LAMBDA z : z[2] # None))]
        ELSE IF any_not_None(auth_id_collisions)
        THEN [identifiers |-> ids1, details |-> dets,
              raised |-> Exception("user_id",
                  SelectSeq(ZIP(user_ids, auth_id_collisions),
                            LAMBDA z : z[2] # None))]
        ELSE [identifiers |-> ids1,
              details |-> put_multi(dets, assoc_by_user_id_models),
              raised |-> NoException]

\* Variant: only missing UserAuthDetailsModels are written, those without
\* a gae_id are left as they are
associate_multi_keeps_empty_details(ids, dets, auth_id_user_id_pairs, t) ==
    LET auth_ids == [i \in DOMAIN auth_id_user_id_pairs |->
                        auth_id_user_id_pairs[i][1]]
        user_ids == [i \in DOMAIN auth_id_user_id_pairs |->
                        auth_id_user_id_pairs[i][2]]
        user_id_collisions == get_multi_user_ids_from_auth_ids(ids, auth_ids)
        auth_id_collisions == get_multi_auth_ids_from_user_ids(dets, user_ids)
        existing == get_multi(dets, user_ids, FALSE, NoDetails)
        assoc_by_user_id_models ==
            SelectSeq([i \in DOMAIN user_ids |->
                <<user_ids[i],
                  update_timestamps(UserAuthDetailsModel(auth_ids[i]), t),
                  ~existing[i].exists>>],
                LAMBDA c : c[3])
    IN  IF any_not_None(user_id_collisions)
        THEN [identifiers |-> ids, details |-> dets,
              raised |-> Exception("auth_id",
                  SelectSeq(ZIP(auth_ids, user_id_collisions),
                            LAMBDA z : z[2] # None))]
        ELSE IF any_not_None(auth_id_collisions)
        THEN [identifiers |-> ids, details |-> dets,
              raised |-> Exception("user_id",
                  SelectSeq(ZIP(user_ids, auth_id_collisions),
                            LAMBDA z : z[2] # None))]
        ELSE [identifiers |-> put_multi(ids,
                  [i \in DOMAIN auth_ids |->
                      <<auth_ids[i],
                        update_timestamps(
                            UserIdentifiersModel(user_ids[i]), t)>>]),
              details |-> put_multi(dets, assoc_by_user_id_models),
              raised |-> NoException]

\* Variant: the message names the first collision only
associate_multi_lists_first_collision(ids, dets, auth_id_user_id_pairs, t) ==
    LET auth_ids == [i \in DOMAIN auth_id_user_id_pairs |->
                        auth_id_user_id_pairs[i][1]]
        user_ids == [i \in DOMAIN auth_id_user_id_pairs |->
                        auth_id_user_id_pairs[i][2]]
        user_id_collisions == get_multi_user_ids_from_auth_ids(ids, auth_ids)
        auth_id_collisions == get_multi_auth_ids_from_user_ids(dets, user_ids)
        existing == get_multi(dets, user_ids, FALSE, NoDetails)
        assoc_by_user_id_models ==
            SelectSeq([i \in DOMAIN user_ids |->
                <<user_ids[i],
                  update_timestamps(UserAuthDetailsModel(auth_ids[i]), t),
                  ~existing[i].exists \/ existing[i].gae_id = None>>],
                LAMBDA c : c[3])
    IN  IF any_not_None(user_id_collisions)
        THEN [identifiers |-> ids, details |-> dets,
              raised |-> Exception("auth_id",
                  SubSeq(SelectSeq(ZIP(auth_ids, user_id_collisions),
                                   LAMBDA z : z[2] # None), 1, 1))]
        ELSE IF any_not_None(auth_id_collisions)
        THEN [identifiers |-> ids, details |-> dets,
              raised |-> Exception("user_id",
                  SubSeq(SelectSeq(ZIP(user_ids, auth_id_collisions),
                                   LAMBDA z : z[2] # None), 1, 1))]
        ELSE [identifiers |-> put_multi(ids,
                  [i \in DOMAIN auth_ids |->
                      <<auth_ids[i],
                        update_timestamps(
                            UserIdentifiersModel(user_ids[i]), t)>>]),
              details |-> put_multi(dets, assoc_by_user_id_models),
              raised |-> NoException]

associate_multi_auth_ids_with_user_ids(ids, dets, auth_id_user_id_pairs, t) ==
    LET auth_ids == [i \in DOMAIN auth_id_user_id_pairs |->
                        auth_id_user_id_pairs[i][1]]
        user_ids == [i \in DOMAIN auth_id_user_id_pairs |->
                        auth_id_user_id_pairs[i][2]]
        user_id_collisions == get_multi_user_ids_from_auth_ids(ids, auth_ids)
        auth_id_collisions == get_multi_auth_ids_from_user_ids(dets, user_ids)
        assoc_by_auth_id_models ==
            [i \in DOMAIN auth_ids |->
                <<auth_ids[i],
                  update_timestamps(UserIdentifiersModel(user_ids[i]), t)>>]
        existing == get_multi(dets, user_ids, FALSE, NoDetails)
        candidates ==
            [i \in DOMAIN user_ids |->
                <<user_ids[i],
                  update_timestamps(UserAuthDetailsModel(auth_ids[i]), t),
                  ~existing[i].exists \/ existing[i].gae_id = None>>]
        assoc_by_user_id_models ==
            SelectSeq(candidates, LAMBDA c : c[3])
    IN  IF any_not_None(user_id_collisions)
        THEN [identifiers |-> ids, details |-> dets,
              raised |-> Exception("auth_id",
                  SelectSeq(ZIP(auth_ids, user_id_collisions),
                            LAMBDA z : z[2] # None))]
        ELSE IF any_not_None(auth_id_collisions)
        THEN [identifiers |-> ids, details |-> dets,
              raised |-> Exception("user_id",
                  SelectSeq(ZIP(user_ids, auth_id_collisions),
                            LAMBDA z : z[2] # None))]
        ELSE [identifiers |-> put_multi(ids, assoc_by_auth_id_models),
              details |->
                  IF assoc_by_user_id_models # <<>>
                  THEN put_multi(dets, assoc_by_user_id_models)
                  ELSE dets,
              raised |-> NoException]

\* Variant: the UserAuthDetailsModel is read with its tombstone (get_by_id)
mark_rewrites_tombstoned_details(ids, dets, user_id, t, queried) ==
    LET assoc_by_user_id_model == get_by_id(dets, user_id, NoDetails)
        assoc_by_auth_id_key ==
            IF ~assoc_by_user_id_model.exists THEN queried
            ELSE assoc_by_user_id_model.gae_id
        assoc_by_auth_id_model ==
            IF ~assoc_by_user_id_model.exists
            THEN get_by_id(ids, queried, NoIdentifiers)
            ELSE get(ids, assoc_by_user_id_model.gae_id, NoIdentifiers)
    IN  [identifiers |->
            IF assoc_by_auth_id_model.exists
            THEN put(ids, assoc_by_auth_id_key,
                     update_timestamps(
                         [assoc_by_auth_id_model EXCEPT !.deleted = TRUE], t))
            ELSE ids,
         details |->
            IF assoc_by_user_id_model.exists
            THEN put(dets, user_id,
                     update_timestamps(
                         [assoc_by_user_id_model EXCEPT !.deleted = TRUE], t))
            ELSE dets,
         raised |-> NoException]

\* Variant: deletion also clears the gae_id of the UserAuthDetailsModel
mark_clears_gae_id(ids, dets, user_id, t, queried) ==
    LET assoc_by_user_id_model == get(dets, user_id, NoDetails)
        assoc_by_auth_id_key ==
            IF ~assoc_by_user_id_model.exists THEN queried
            ELSE assoc_by_user_id_model.gae_id
        assoc_by_auth_id_model ==
            IF ~assoc_by_user_id_model.exists
            THEN get_by_id(ids, queried, NoIdentifiers)
            ELSE get(ids, assoc_by_user_id_model.gae_id, NoIdentifiers)
    IN  [identifiers |->
            IF assoc_by_auth_id_model.exists
            THEN put(ids, assoc_by_auth_id_key,
                     update_timestamps(
                         [assoc_by_auth_id_model EXCEPT !.deleted = TRUE], t))
            ELSE ids,
         details |->
            IF assoc_by_user_id_model.exists
            THEN put(dets, user_id,
                     update_timestamps(
                         [assoc_by_user_id_model EXCEPT !.deleted = TRUE,
                                                        !.gae_id = None], t))
            ELSE dets,
         raised |-> NoException]

\* Variant: the UserIdentifiersModel is left as it is
mark_skips_identifiers(ids, dets, user_id, t, queried) ==
    LET assoc_by_user_id_model == get(dets, user_id, NoDetails)
    IN  [identifiers |-> ids,
         details |->
            IF assoc_by_user_id_model.exists
            THEN put(dets, user_id,
                     update_timestamps(
                         [assoc_by_user_id_model EXCEPT !.deleted = TRUE], t))
            ELSE dets,
         raised |-> NoException]

\* Variant: the UserIdentifiersModel is always found by get_by_user_id
mark_always_queries_by_user_id(ids, dets, user_id, t, queried) ==
    LET assoc_by_user_id_model == get(dets, user_id, NoDetails)
        assoc_by_auth_id_model == get_by_id(ids, queried, NoIdentifiers)
    IN  [identifiers |->
            IF assoc_by_auth_id_model.exists
            THEN put(ids, queried,
                     update_timestamps(
                         [assoc_by_auth_id_model EXCEPT !.deleted = TRUE], t))
            ELSE ids,
         details |->
            IF assoc_by_user_id_model.exists
            THEN put(dets, user_id,
                     update_timestamps(
                         [assoc_by_user_id_model EXCEPT !.deleted = TRUE], t))
            ELSE dets,
         raised |-> NoException]

\* queried is the key of the entity get_by_user_id(user_id) returns, or None
mark_user_for_deletion(ids, dets, user_id, t, queried) ==
    LET assoc_by_user_id_model == get(dets, user_id, NoDetails)
        assoc_by_auth_id_key ==
            IF ~assoc_by_user_id_model.exists THEN queried
            ELSE assoc_by_user_id_model.gae_id
        assoc_by_auth_id_model ==
            IF ~assoc_by_user_id_model.exists
            THEN get_by_id(ids, queried, NoIdentifiers)
            ELSE get(ids, assoc_by_user_id_model.gae_id, NoIdentifiers)
    IN  [identifiers |->
            IF assoc_by_auth_id_model.exists
            THEN put(ids, assoc_by_auth_id_key,
                     update_timestamps(
                         [assoc_by_auth_id_model EXCEPT !.deleted = TRUE], t))
            ELSE ids,
         details |->
            IF assoc_by_user_id_model.exists
            THEN put(dets, user_id,
                     update_timestamps(
                         [assoc_by_user_id_model EXCEPT !.deleted = TRUE], t))
            ELSE dets,
         raised |-> NoException]

----------------------------------------------------------------------------
(* Session hooks.  The clock counts TicksPerSecond ticks in a second;      *)
(* strftime('%a, %d %b %Y %H:%M:%S GMT') keeps the whole seconds of a      *)
(* time, so a formatted time is a number of seconds.                       *)

TicksPerSecond == 2
SecondsPerDay == 86400

\* datetime.timedelta(days=n)
timedelta(days) == days * SecondsPerDay * TicksPerSecond

\* t.strftime('%a, %d %b %Y %H:%M:%S GMT')
strftime(t) == t \div TicksPerSecond

\* The cookie names destroy_auth_session unsets, in the order of its loop
CookieNames == <<"ACSID", "SACSID", "dev_appserver_login">>

\* cookie.output().split(': ', 1) of a SimpleCookie with one morsel
cookie_output(cookie_name, value, expires) ==
    <<"Set-Cookie",
      [name |-> cookie_name, value |-> value, expires |-> expires]>>

\* Variant: the expiry is one day after the time of the call
destroy_auth_session_expires_tomorrow(response_headers, utcnow) ==
    response_headers \o
        [i \in DOMAIN CookieNames |->
            cookie_output(
                CookieNames[i], "", strftime(utcnow[i] + timedelta(1)))]

\* utcnow[i] is the clock reading of the i-th iteration of the loop
destroy_auth_session(response_headers, utcnow) ==
    response_headers \o
        [i \in DOMAIN CookieNames |->
            cookie_output(
                CookieNames[i], "", strftime(utcnow[i] - timedelta(1)))]

----------------------------------------------------------------------------
(* The service as a state machine: one call at a time, each run to its end.*)
(* The lookups write nothing, so they are the operators above and not      *)
(* actions.                                                                *)

NumProcs == 2

Procs == 1..NumProcs

\* A request that has not called the service yet
IdleProc ==
    [op |-> "none", pairs |-> <<>>, status |-> "idle", pc |-> 0,
     raised |-> NoException, models |-> <<>>, trace |-> <<>>,
     put_at |-> 0, retries_crashed |-> FALSE]

NoCall == [op |-> "none", pairs |-> <<>>, user_id |-> None,
           raised |-> NoException, retry |-> FALSE]

\* Non-empty batches of at most MaxBatch pairs
Batches == UNION {[1..n -> AuthIdUserIdPair] : n \in 1..MaxBatch}

HasDuplicates(pairs) ==
    \E i, j \in DOMAIN pairs :
        i # j /\ (pairs[i][1] = pairs[j][1] \/ pairs[i][2] = pairs[j][2])

\* UserAuthDetailsModel entities may pre-exist without an auth ID, because
\* other services create them (gae_auth_services.py:240-245).
Init ==
    /\ identifiers = [a \in AuthIds |-> NoIdentifiers]
    /\ details \in [UserIds -> {NoDetails,
                                [UserAuthDetailsModel(None) EXCEPT
                                    !.created_on = 1, !.last_updated = 1]}]
    /\ now = 2
    /\ last = NoCall
    /\ prev = NoCall
    /\ identifiers0 = identifiers
    /\ details0 = details
    /\ failed = <<>>
    /\ dupBatch = FALSE
    /\ gae_user = None
    /\ headers = <<>>
    /\ headers0 = <<>>
    /\ utcnow_reads = <<>>
    /\ procs = [p \in Procs |-> IdleProc]

Commit(call, r) ==
    /\ identifiers' = r.identifiers
    /\ details' = r.details
    /\ identifiers0' = identifiers
    /\ details0' = details
    /\ now' = IF r.identifiers # identifiers \/ r.details # details
              THEN now + 1 ELSE now
    /\ prev' = last
    /\ last' = [call EXCEPT !.raised = r.raised]
    /\ UNCHANGED <<sessionVars, procs>>

Associate(auth_id, user_id) ==
    LET pair == <<auth_id, user_id>>
        r == associate_auth_id_with_user_id(identifiers, details, pair, now)
    IN  /\ now <= MaxClock
        /\ Commit([op |-> "associate", pairs |-> <<pair>>, user_id |-> None,
                   raised |-> NoException, retry |-> pair = failed], r)
        /\ failed' = IF r.raised # NoException /\ failed = <<>>
                     THEN pair ELSE failed
        /\ UNCHANGED dupBatch

AssociateMulti(pairs) ==
    LET r == associate_multi_auth_ids_with_user_ids(
                 identifiers, details, pairs, now)
    IN  /\ now <= MaxClock
        /\ Commit([op |-> "associate_multi", pairs |-> pairs,
                   user_id |-> None, raised |-> NoException,
                   retry |-> FALSE], r)
        /\ dupBatch' = (dupBatch \/
                        (r.raised = NoException /\ HasDuplicates(pairs)))
        /\ UNCHANGED failed

MarkUserForDeletion(user_id) ==
    LET matches == get_by_user_id(identifiers, user_id)
    IN  /\ now <= MaxClock
        /\ \E queried \in (IF matches = {} THEN {None} ELSE matches) :
              Commit([op |-> "mark_user_for_deletion", pairs |-> <<>>,
                      user_id |-> user_id, raised |-> NoException,
                      retry |-> FALSE],
                     mark_user_for_deletion(identifiers, details, user_id,
                                            now, queried))
        /\ UNCHANGED <<failed, dupBatch>>

Next ==
    \/ \E a \in AuthIds, u \in UserIds : Associate(a, u)
    \/ \E pairs \in Batches : AssociateMulti(pairs)
    \/ \E u \in UserIds : MarkUserForDeletion(u)

Spec == Init /\ [][Next]_vars

----------------------------------------------------------------------------
(* The session hooks as a state machine: requests clear the login cookies  *)
(* of a response while time passes and users sign in and out at the        *)
(* platform.                                                               *)

MaxSessionCalls == 2

\* The clock readings a loop over the cookie names can make from time t on
UtcnowReads(t) ==
    {r \in [DOMAIN CookieNames -> t..(MaxClock + 1)] :
        /\ r[1] = t
        /\ \A i \in DOMAIN r : i > 1 => r[i - 1] <= r[i]}

DestroyAuthSession ==
    /\ Len(headers) < MaxSessionCalls * Len(CookieNames)
    /\ \E utcnow \in UtcnowReads(now) :
        /\ headers' = destroy_auth_session(headers, utcnow)
        /\ utcnow_reads' = utcnow
        /\ now' = utcnow[Len(utcnow)]
    /\ headers0' = headers
    /\ UNCHANGED <<storeVars, gae_user, procs>>

\* A user signs in at the platform
GaeLogin(gae_id) ==
    /\ gae_user = None
    /\ gae_user' = gae_id
    /\ UNCHANGED <<storeVars, now, headers, headers0, utcnow_reads, procs>>

\* The signed-in user's platform session ends
GaeLogout ==
    /\ gae_user # None
    /\ gae_user' = None
    /\ UNCHANGED <<storeVars, now, headers, headers0, utcnow_reads, procs>>

\* Time passes between requests
Tick ==
    /\ now <= MaxClock
    /\ now' = now + 1
    /\ UNCHANGED <<storeVars, sessionVars, procs>>

NextSession ==
    \/ DestroyAuthSession
    \/ \E gae_id \in AuthIds : GaeLogin(gae_id)
    \/ GaeLogout
    \/ Tick

SpecSession == Init /\ [][NextSession]_vars

----------------------------------------------------------------------------
(* The association calls statement by statement.  Requests run in          *)
(* different server processes over one datastore; nothing in the module    *)
(* takes a lock or opens a transaction, so the statements of two calls     *)
(* interleave freely, and a process can stop between any two statements.   *)
(* Each datastore call (get, get_multi, put, put_multi) is one step.       *)

\* Variant: the UserAuthDetailsModel is written before the
\* UserIdentifiersModel
associate_statements_details_first ==
    <<"check_auth_id", "check_user_id", "get_details", "put_details",
      "put_identifiers">>

\* The statements of associate_auth_id_with_user_id in program order
associate_statements ==
    <<"check_auth_id", "check_user_id", "put_identifiers", "get_details",
      "put_details">>

\* Variant: the UserIdentifiersModels are written before the user IDs are
\* checked
associate_multi_statements_write_first ==
    <<"check_auth_id", "put_identifiers", "check_user_id", "get_details",
      "put_details">>

\* The statements of associate_multi_auth_ids_with_user_ids in program order
associate_multi_statements ==
    <<"check_auth_id", "check_user_id", "put_identifiers", "get_details",
      "put_details">>

Statements(op) ==
    IF op = "associate" THEN associate_statements
    ELSE associate_multi_statements

\* The statement process p executes next
Statement(p) ==
    IF procs[p].status = "running"
    THEN Statements(procs[p].op)[procs[p].pc]
    ELSE "none"

\* A datastore call as it is recorded in the trace of a process
Access(verb, kind) == [verb |-> verb, kind |-> kind]

\* The statement is done: move to the next one, or return after the last
Proceed(proc, accesses) ==
    [proc EXCEPT !.pc = @ + 1,
                 !.status = IF proc.pc = Len(Statements(proc.op))
                            THEN "returned" ELSE "running",
                 !.trace = @ \o accesses]

\* The statement raises: the call ends
Raise(proc, accesses, exception) ==
    [proc EXCEPT !.status = "raised",
                 !.raised = exception,
                 !.trace = @ \o accesses]

\* Some process stopped inside associate(pair) after it wrote the
\* UserIdentifiersModel and before it wrote the UserAuthDetailsModel
CrashedBetweenWritesBy(q, pair) ==
    /\ procs[q].status = "crashed"
    /\ procs[q].op = "associate"
    /\ procs[q].pairs = <<pair>>
    /\ \E i \in DOMAIN procs[q].trace :
          procs[q].trace[i] = Access("put", "identifiers")
    /\ \A i \in DOMAIN procs[q].trace :
          procs[q].trace[i] # Access("put", "details")

CrashedBetweenWrites(pair) ==
    \E q \in Procs : CrashedBetweenWritesBy(q, pair)

\* A request calls associate_auth_id_with_user_id or
\* associate_multi_auth_ids_with_user_ids
Call(p, op, pairs) ==
    /\ procs[p].status = "idle"
    /\ procs' = [procs EXCEPT ![p] =
          [IdleProc EXCEPT
              !.op = op, !.pairs = pairs, !.status = "running", !.pc = 1,
              !.retries_crashed =
                  op = "associate" /\ CrashedBetweenWrites(pairs[1])]]
    /\ UNCHANGED <<storeVars, now, sessionVars>>

\* The process stops before its next statement
Crash(p) ==
    /\ procs[p].status = "running"
    /\ procs' = [procs EXCEPT ![p].status = "crashed"]
    /\ UNCHANGED <<storeVars, now, sessionVars>>

\* gae_auth_services.py:223-226
AssociateCheckAuthId(p) ==
    LET proc == procs[p]
        auth_id == proc.pairs[1][1]
        user_id_collision == get_user_id_from_auth_id(identifiers, auth_id)
        accesses == <<Access("get", "identifiers")>>
    IN  /\ proc.op = "associate"
        /\ Statement(p) = "check_auth_id"
        /\ procs' = [procs EXCEPT ![p] =
              IF user_id_collision # None
              THEN Raise(proc, accesses,
                         Exception("auth_id",
                                   <<<<auth_id, user_id_collision>>>>))
              ELSE Proceed(proc, accesses)]
        /\ UNCHANGED <<storeVars, now, sessionVars>>

\* gae_auth_services.py:228-231
AssociateCheckUserId(p) ==
    LET proc == procs[p]
        user_id == proc.pairs[1][2]
        auth_id_collision == get_auth_id_from_user_id(details, user_id)
        accesses == <<Access("get", "details")>>
    IN  /\ proc.op = "associate"
        /\ Statement(p) = "check_user_id"
        /\ procs' = [procs EXCEPT ![p] =
              IF auth_id_collision # None
              THEN Raise(proc, accesses,
                         Exception("user_id",
                                   <<<<user_id, auth_id_collision>>>>))
              ELSE Proceed(proc, accesses)]
        /\ UNCHANGED <<storeVars, now, sessionVars>>

\* Variant: an entity already stored under the auth ID is left as it is
AssociatePutIdentifiersIfAbsent(p) ==
    LET proc == procs[p]
        auth_id == proc.pairs[1][1]
        user_id == proc.pairs[1][2]
        assoc_by_auth_id_model ==
            update_timestamps(UserIdentifiersModel(user_id), now)
    IN  /\ proc.op = "associate"
        /\ Statement(p) = "put_identifiers"
        /\ identifiers' =
              IF identifiers[auth_id].exists THEN identifiers
              ELSE put(identifiers, auth_id, assoc_by_auth_id_model)
        /\ now' = now + 1
        /\ procs' = [procs EXCEPT ![p] =
              [Proceed(proc, <<Access("put", "identifiers")>>)
                  EXCEPT !.put_at = now]]
        /\ UNCHANGED <<details, histVars, sessionVars>>

\* gae_auth_services.py:235-238
AssociatePutIdentifiers(p) ==
    LET proc == procs[p]
        auth_id == proc.pairs[1][1]
        user_id == proc.pairs[1][2]
        assoc_by_auth_id_model ==
            update_timestamps(UserIdentifiersModel(user_id), now)
    IN  /\ proc.op = "associate"
        /\ Statement(p) = "put_identifiers"
        /\ identifiers' = put(identifiers, auth_id, assoc_by_auth_id_model)
        /\ now' = now + 1
        /\ procs' = [procs EXCEPT ![p] =
              [Proceed(proc, <<Access("put", "identifiers")>>)
                  EXCEPT !.put_at = now]]
        /\ UNCHANGED <<details, histVars, sessionVars>>

\* gae_auth_services.py:246-247
AssociateGetDetails(p) ==
    LET proc == procs[p]
        user_id == proc.pairs[1][2]
        assoc_by_user_id_model == get(details, user_id, NoDetails)
    IN  /\ proc.op = "associate"
        /\ Statement(p) = "get_details"
        /\ procs' = [procs EXCEPT ![p] =
              [Proceed(proc, <<Access("get", "details")>>)
                  EXCEPT !.models = <<assoc_by_user_id_model>>]]
        /\ UNCHANGED <<storeVars, now, sessionVars>>

\* gae_auth_services.py:248-252
AssociatePutDetails(p) ==
    LET proc == procs[p]
        auth_id == proc.pairs[1][1]
        user_id == proc.pairs[1][2]
        assoc_by_user_id_model == proc.models[1]
        writes == \/ ~assoc_by_user_id_model.exists
                  \/ assoc_by_user_id_model.gae_id = None
    IN  /\ proc.op = "associate"
        /\ Statement(p) = "put_details"
        /\ details' =
              IF writes
              THEN put(details, user_id,
                       update_timestamps(UserAuthDetailsModel(auth_id), now))
              ELSE details
        /\ now' = IF writes THEN now + 1 ELSE now
        /\ procs' = [procs EXCEPT ![p] =
              Proceed(proc, IF writes THEN <<Access("put", "details")>>
                            ELSE <<>>)]
        /\ UNCHANGED <<identifiers, histVars, sessionVars>>

auth_ids_of(pairs) == [i \in DOMAIN pairs |-> pairs[i][1]]

user_ids_of(pairs) == [i \in DOMAIN pairs |-> pairs[i][2]]

\* gae_auth_services.py:266-275
MultiCheckAuthIds(p) ==
    LET proc == procs[p]
        auth_ids == auth_ids_of(proc.pairs)
        user_id_collisions ==
            get_multi_user_ids_from_auth_ids(identifiers, auth_ids)
        accesses == <<Access("get", "identifiers")>>
    IN  /\ proc.op = "associate_multi"
        /\ Statement(p) = "check_auth_id"
        /\ procs' = [procs EXCEPT ![p] =
              IF any_not_None(user_id_collisions)
              THEN Raise(proc, accesses,
                         Exception("auth_id",
                             SelectSeq(ZIP(auth_ids, user_id_collisions),
                                       LAMBDA z : z[2] # None)))
              ELSE Proceed(proc, accesses)]
        /\ UNCHANGED <<storeVars, now, sessionVars>>

\* gae_auth_services.py:277-284
MultiCheckUserIds(p) ==
    LET proc == procs[p]
        user_ids == user_ids_of(proc.pairs)
        auth_id_collisions ==
            get_multi_auth_ids_from_user_ids(details, user_ids)
        accesses == <<Access("get", "details")>>
    IN  /\ proc.op = "associate_multi"
        /\ Statement(p) = "check_user_id"
        /\ procs' = [procs EXCEPT ![p] =
              IF any_not_None(auth_id_collisions)
              THEN Raise(proc, accesses,
                         Exception("user_id",
                             SelectSeq(ZIP(user_ids, auth_id_collisions),
                                       LAMBDA z : z[2] # None)))
              ELSE Proceed(proc, accesses)]
        /\ UNCHANGED <<storeVars, now, sessionVars>>

\* gae_auth_services.py:288-294
MultiPutIdentifiers(p) ==
    LET proc == procs[p]
        auth_ids == auth_ids_of(proc.pairs)
        user_ids == user_ids_of(proc.pairs)
        assoc_by_auth_id_models ==
            [i \in DOMAIN auth_ids |->
                <<auth_ids[i],
                  update_timestamps(UserIdentifiersModel(user_ids[i]), now)>>]
    IN  /\ proc.op = "associate_multi"
        /\ Statement(p) = "put_identifiers"
        /\ identifiers' = put_multi(identifiers, assoc_by_auth_id_models)
        /\ now' = now + 1
        /\ procs' = [procs EXCEPT ![p] =
              [Proceed(proc, <<Access("put", "identifiers")>>)
                  EXCEPT !.put_at = now]]
        /\ UNCHANGED <<details, histVars, sessionVars>>

\* gae_auth_services.py:302-303
MultiGetDetails(p) ==
    LET proc == procs[p]
        user_ids == user_ids_of(proc.pairs)
    IN  /\ proc.op = "associate_multi"
        /\ Statement(p) = "get_details"
        /\ procs' = [procs EXCEPT ![p] =
              [Proceed(proc, <<Access("get", "details")>>)
                  EXCEPT !.models =
                      get_multi(details, user_ids, FALSE, NoDetails)]]
        /\ UNCHANGED <<storeVars, now, sessionVars>>

\* gae_auth_services.py:302-312
MultiPutDetails(p) ==
    LET proc == procs[p]
        auth_ids == auth_ids_of(proc.pairs)
        user_ids == user_ids_of(proc.pairs)
        candidates ==
            [i \in DOMAIN user_ids |->
                <<user_ids[i],
                  update_timestamps(UserAuthDetailsModel(auth_ids[i]), now),
                  ~proc.models[i].exists \/ proc.models[i].gae_id = None>>]
        assoc_by_user_id_models == SelectSeq(candidates, LAMBDA c : c[3])
        writes == assoc_by_user_id_models # <<>>
    IN  /\ proc.op = "associate_multi"
        /\ Statement(p) = "put_details"
        /\ details' =
              IF writes THEN put_multi(details, assoc_by_user_id_models)
              ELSE details
        /\ now' = IF writes THEN now + 1 ELSE now
        /\ procs' = [procs EXCEPT ![p] =
              Proceed(proc, IF writes THEN <<Access("put", "details")>>
                            ELSE <<>>)]
        /\ UNCHANGED <<identifiers, histVars, sessionVars>>

NextConc ==
    \E p \in Procs :
        \/ \E pair \in AuthIdUserIdPair : Call(p, "associate", <<pair>>)
        \/ \E pairs \in Batches : Call(p, "associate_multi", pairs)
        \/ Crash(p)
        \/ AssociateCheckAuthId(p)
        \/ AssociateCheckUserId(p)
        \/ AssociatePutIdentifiers(p)
        \/ AssociateGetDetails(p)
        \/ AssociatePutDetails(p)
        \/ MultiCheckAuthIds(p)
        \/ MultiCheckUserIds(p)
        \/ MultiPutIdentifiers(p)
        \/ MultiGetDetails(p)
        \/ MultiPutDetails(p)

SpecConc == Init /\ [][NextConc]_vars

TypeOK ==
    /\ DOMAIN identifiers = AuthIds
    /\ DOMAIN details = UserIds
    /\ now \in 2..(MaxClock + 1)
    /\ \A a \in AuthIds : identifiers[a].last_updated < now
    /\ \A u \in UserIds : details[u].last_updated < now
----------------------------------------------------------------------------
(* Vocabulary of the properties.                                           *)

Succeeded(call) == call.raised = NoException

\* The store as the claims compare it: keys, cross-references and deletion
\* flags, without the timestamps
StripIdentifiers(ids) ==
    [a \in DOMAIN ids |-> <<ids[a].exists, ids[a].user_id, ids[a].deleted>>]

StripDetails(dets) ==
    [u \in DOMAIN dets |-> <<dets[u].exists, dets[u].gae_id, dets[u].deleted>>]

\* A pair collides with the store: one of its keys already has a value
Collides(ids, dets, pair) ==
    \/ get_user_id_from_auth_id(ids, pair[1]) # None
    \/ get_auth_id_from_user_id(dets, pair[2]) # None

\* N sequential associate calls on the pairs in order, the clock advancing
\* after each
RECURSIVE Sequential(_, _, _, _)
Sequential(ids, dets, pairs, t) ==
    IF pairs = <<>>
    THEN [identifiers |-> ids, details |-> dets, raised |-> NoException]
    ELSE LET r == associate_auth_id_with_user_id(ids, dets, Head(pairs), t)
         IN  IF r.raised # NoException THEN r
             ELSE Sequential(r.identifiers, r.details, Tail(pairs), t + 1)

Symmetric ==
    \A a \in AuthIds, u \in UserIds :
        (/\ identifiers[a].exists /\ ~identifiers[a].deleted
         /\ details[u].exists /\ ~details[u].deleted)
        => (identifiers[a].user_id = u <=> details[u].gae_id = a)

----------------------------------------------------------------------------
(* C1: when neither lookup_user_id(auth_id) nor lookup_auth_id(user_id)    *)
(* had a value before associate(auth_id, user_id), the call completes and  *)
(* afterwards lookup_user_id(auth_id) = user_id and lookup_auth_id(user_id)*)
(* = auth_id, whatever the UserAuthDetailsModel of user_id was before.     *)
C1_AssociateThenLookups ==
    (/\ last.op = "associate"
     /\ get_user_id_from_auth_id(identifiers0, last.pairs[1][1]) = None
     /\ get_auth_id_from_user_id(details0, last.pairs[1][2]) = None)
    => /\ Succeeded(last)
       /\ get_user_id_from_auth_id(identifiers, last.pairs[1][1])
              = last.pairs[1][2]
       /\ get_auth_id_from_user_id(details, last.pairs[1][2])
              = last.pairs[1][1]

\* associate succeeded for a user whose model was present without an auth ID
C1_Witness ==
    /\ last.op = "associate"
    /\ Succeeded(last)
    /\ details0[last.pairs[1][2]].exists
    /\ ~details0[last.pairs[1][2]].deleted
    /\ details0[last.pairs[1][2]].gae_id = None

(* C2 as stated: in every state reached by completed associate,            *)
(* associate_multi and mark_user_for_deletion calls, batches that repeat   *)
(* an auth ID or a user ID included, the mapping between the non-deleted   *)
(* records is symmetric.                                                   *)
C2_SymmetricAlways == Symmetric

(* C2 amended: the mapping between the non-deleted records is symmetric as *)
(* long as no written batch repeated an auth ID or a user ID.              *)
C2_SymmetricWithoutDuplicates == ~dupBatch => Symmetric

\* a batch of two pairs was written, no batch repeated a key, and a user
\* had been tombstoned before
C2_Witness ==
    /\ ~dupBatch
    /\ last.op = "associate_multi"
    /\ Len(last.pairs) = 2
    /\ Succeeded(last)
    /\ \E u \in UserIds : details0[u].exists /\ details0[u].deleted

(* C3: associate and associate_multi leave the cross-reference of every    *)
(* record of the call's keys that was populated before the call as it was, *)
(* tombstoned or not.                                                      *)
C3_NoOverwrite ==
    last.op \in {"associate", "associate_multi"}
    => \A i \in DOMAIN last.pairs :
          /\ identifiers0[last.pairs[i][1]].exists
             => identifiers[last.pairs[i][1]].user_id
                    = identifiers0[last.pairs[i][1]].user_id
          /\ (/\ details0[last.pairs[i][2]].exists
              /\ details0[last.pairs[i][2]].gae_id # None)
             => details[last.pairs[i][2]].gae_id
                    = details0[last.pairs[i][2]].gae_id

(* C4: right after a successful associate(auth_id, user_id), an associate  *)
(* call that shares the auth ID or the user ID raises and leaves both      *)
(* kinds as they were.                                                     *)
C4_SecondAssociateCollides ==
    (/\ prev.op = "associate" /\ Succeeded(prev)
     /\ last.op = "associate"
     /\ \/ last.pairs[1][1] = prev.pairs[1][1]
        \/ last.pairs[1][2] = prev.pairs[1][2])
    => /\ ~Succeeded(last)
       /\ identifiers = identifiers0
       /\ details = details0

\* the second call reused the user ID with another auth ID
C4_Witness ==
    /\ prev.op = "associate" /\ Succeeded(prev)
    /\ last.op = "associate"
    /\ last.pairs[1][1] # prev.pairs[1][1]
    /\ last.pairs[1][2] = prev.pairs[1][2]
    /\ last.raised.kind = "user_id"

(* C5: an associate_multi call with at least one pair that collides with   *)
(* the store raises and writes nothing.                                    *)
C5_BatchFailsAtomically ==
    (/\ last.op = "associate_multi"
     /\ \E i \in DOMAIN last.pairs :
            Collides(identifiers0, details0, last.pairs[i]))
    => /\ ~Succeeded(last)
       /\ identifiers = identifiers0
       /\ details = details0

\* a batch whose first pair was free and whose second pair collided on the
\* user ID only
C5_Witness ==
    /\ last.op = "associate_multi"
    /\ Len(last.pairs) = 2
    /\ ~Collides(identifiers0, details0, last.pairs[1])
    /\ get_user_id_from_auth_id(identifiers0, last.pairs[2][1]) = None
    /\ get_auth_id_from_user_id(details0, last.pairs[2][2]) # None
    /\ ~Succeeded(last)

(* C6: an associate_multi call over pairs with pairwise distinct auth IDs  *)
(* and user IDs, none colliding with the store, ends with the same         *)
(* records, cross-references and deletion flags as associate called on     *)
(* the pairs one after the other.                                          *)
C6_BatchEqualsSequential ==
    (/\ last.op = "associate_multi"
     /\ ~HasDuplicates(last.pairs)
     /\ \A i \in DOMAIN last.pairs :
            ~Collides(identifiers0, details0, last.pairs[i]))
    => LET seq == Sequential(identifiers0, details0, last.pairs, now - 1)
       IN  /\ Succeeded(last)
           /\ Succeeded(seq)
           /\ StripIdentifiers(identifiers) = StripIdentifiers(seq.identifiers)
           /\ StripDetails(details) = StripDetails(seq.details)

\* a batch of two disjoint pairs, one user with a model lacking an auth ID
\* and one user tombstoned
C6_Witness ==
    /\ last.op = "associate_multi"
    /\ Len(last.pairs) = 2
    /\ ~HasDuplicates(last.pairs)
    /\ Succeeded(last)
    /\ \E i, j \in DOMAIN last.pairs :
          /\ details0[last.pairs[i][2]].exists
          /\ details0[last.pairs[i][2]].gae_id = None
          /\ details0[last.pairs[j][2]].exists
          /\ details0[last.pairs[j][2]].deleted

(* C7: right after associate(auth_id, user_id) and then                    *)
(* mark_user_for_deletion(user_id), lookup_auth_id(user_id) is absent and  *)
(* lookup_user_id(auth_id) is still user_id, and the batched lookups give  *)
(* the same two answers for the pair.                                      *)
C7_DeletionAsymmetry ==
    (/\ prev.op = "associate" /\ Succeeded(prev)
     /\ last.op = "mark_user_for_deletion"
     /\ last.user_id = prev.pairs[1][2])
    => LET auth_id == prev.pairs[1][1]
           user_id == prev.pairs[1][2]
           user_ids == [u \in UserIds |-> u]
           auth_ids == [a \in AuthIds |-> a]
       IN  /\ get_auth_id_from_user_id(details, user_id) = None
           /\ get_user_id_from_auth_id(identifiers, auth_id) = user_id
           /\ get_multi_auth_ids_from_user_ids(details, user_ids)[user_id]
                  = None
           /\ get_multi_user_ids_from_auth_ids(identifiers, auth_ids)[auth_id]
                  = user_id

\* the pair was associated and then tombstoned on both sides
C7_Witness ==
    /\ prev.op = "associate" /\ Succeeded(prev)
    /\ last.op = "mark_user_for_deletion"
    /\ last.user_id = prev.pairs[1][2]
    /\ details[last.user_id].deleted
    /\ identifiers[prev.pairs[1][1]].deleted

(* C8 as stated: a second mark_user_for_deletion(user_id) right after the  *)
(* first raises nothing and changes nothing: no record is written, no      *)
(* deletion flag and no timestamp changes.                                 *)
C8_SecondDeletionChangesNothing ==
    (/\ prev.op = "mark_user_for_deletion"
     /\ last.op = "mark_user_for_deletion"
     /\ last.user_id = prev.user_id)
    => /\ Succeeded(last)
       /\ identifiers = identifiers0
       /\ details = details0

(* C8 amended: a second mark_user_for_deletion(user_id) right after the    *)
(* first raises nothing, changes no UserAuthDetailsModel, no key and no    *)
(* cross-reference; it changes at most one UserIdentifiersModel, one whose *)
(* user ID is user_id, which ends tombstoned with a refreshed update       *)
(* timestamp.                                                              *)
C8_SecondDeletionRewritesOneIdentifier ==
    (/\ prev.op = "mark_user_for_deletion"
     /\ last.op = "mark_user_for_deletion"
     /\ last.user_id = prev.user_id)
    => /\ Succeeded(last)
       /\ details = details0
       /\ StripIdentifiers([a \in AuthIds |->
              [identifiers[a] EXCEPT !.deleted = FALSE]])
          = StripIdentifiers([a \in AuthIds |->
              [identifiers0[a] EXCEPT !.deleted = FALSE]])
       /\ Cardinality({a \in AuthIds : identifiers[a] # identifiers0[a]}) <= 1
       /\ \A a \in AuthIds :
             identifiers[a] # identifiers0[a]
             => /\ identifiers0[a].user_id = last.user_id
                /\ identifiers[a] =
                       [identifiers0[a] EXCEPT !.deleted = TRUE,
                                               !.last_updated = now - 1]

\* the second call rewrote the UserIdentifiersModel the first had tombstoned
C8_Witness ==
    /\ prev.op = "mark_user_for_deletion"
    /\ last.op = "mark_user_for_deletion"
    /\ last.user_id = prev.user_id
    /\ \E a \in AuthIds :
          /\ identifiers0[a].deleted
          /\ identifiers[a].last_updated > identifiers0[a].last_updated

(* C9: once associate(auth_id, user_id) has raised, every later associate  *)
(* call with the same pair raises too.                                     *)
C9_CollisionIsPermanent ==
    (last.op = "associate" /\ last.retry) => ~Succeeded(last)

(* C10: no call removes a record, and mark_user_for_deletion changes       *)
(* nothing in a record but its deletion flag, which it sets, and its       *)
(* update timestamp.                                                       *)
C10_DeletionOnlyTombstones ==
    /\ \A a \in AuthIds : identifiers0[a].exists => identifiers[a].exists
    /\ \A u \in UserIds : details0[u].exists => details[u].exists
    /\ last.op = "mark_user_for_deletion"
       => /\ \A a \in AuthIds :
                \/ identifiers[a] = identifiers0[a]
                \/ identifiers[a] =
                       [identifiers0[a] EXCEPT !.deleted = TRUE,
                                               !.last_updated = now - 1]
          /\ \A u \in UserIds :
                \/ details[u] = details0[u]
                \/ details[u] =
                       [details0[u] EXCEPT !.deleted = TRUE,
                                           !.last_updated = now - 1]

\* a deletion tombstoned both records of an association
C10_Witness ==
    /\ last.op = "mark_user_for_deletion"
    /\ details0[last.user_id].gae_id # None
    /\ ~details0[last.user_id].deleted /\ details[last.user_id].deleted
    /\ ~identifiers0[details0[last.user_id].gae_id].deleted
    /\ identifiers[details0[last.user_id].gae_id].deleted

\* The exception lists key with the value it already has, on the side kind
Lists(exc, kind, key, value) ==
    /\ exc.kind = kind
    /\ \E j \in DOMAIN exc.items : exc.items[j] = <<key, value>>

(* C11 as stated: the exception of associate_multi lists every colliding   *)
(* pair of the batch, the pairs whose auth ID has a user ID and the pairs  *)
(* whose user ID has an auth ID, also when the batch has both kinds.       *)
C11_ListsEveryCollision ==
    (last.op = "associate_multi" /\ ~Succeeded(last))
    => \A i \in DOMAIN last.pairs :
          LET auth_id == last.pairs[i][1]
              user_id == last.pairs[i][2]
              user_id_collision == get_user_id_from_auth_id(identifiers0,
                                                            auth_id)
              auth_id_collision == get_auth_id_from_user_id(details0, user_id)
          IN  /\ user_id_collision # None
                 => Lists(last.raised, "auth_id", auth_id, user_id_collision)
              /\ auth_id_collision # None
                 => Lists(last.raised, "user_id", user_id, auth_id_collision)

(* C11 amended: the exception of associate_multi lists every pair of the   *)
(* batch whose auth ID has a user ID; only when there is no such pair does *)
(* it list every pair whose user ID has an auth ID.                        *)
C11_ListsOneKindOfCollision ==
    (last.op = "associate_multi" /\ ~Succeeded(last))
    => LET auth_side ==
               {i \in DOMAIN last.pairs :
                   get_user_id_from_auth_id(identifiers0, last.pairs[i][1])
                       # None}
           user_side ==
               {i \in DOMAIN last.pairs :
                   get_auth_id_from_user_id(details0, last.pairs[i][2])
                       # None}
       IN  IF auth_side # {}
           THEN /\ Len(last.raised.items) = Cardinality(auth_side)
                /\ \A i \in auth_side :
                      Lists(last.raised, "auth_id", last.pairs[i][1],
                            get_user_id_from_auth_id(identifiers0,
                                                     last.pairs[i][1]))
           ELSE /\ Len(last.raised.items) = Cardinality(user_side)
                /\ \A i \in user_side :
                      Lists(last.raised, "user_id", last.pairs[i][2],
                            get_auth_id_from_user_id(details0,
                                                     last.pairs[i][2]))

\* a batch raised with one pair colliding on the auth ID and another pair
\* colliding on the user ID only
C11_Witness ==
    /\ last.op = "associate_multi"
    /\ last.raised.kind = "auth_id"
    /\ \E i, j \in DOMAIN last.pairs :
          /\ get_user_id_from_auth_id(identifiers0, last.pairs[i][1]) # None
          /\ get_user_id_from_auth_id(identifiers0, last.pairs[j][1]) = None
          /\ get_auth_id_from_user_id(details0, last.pairs[j][2]) # None

(* C12: when both keys of associate(auth_id, user_id) collide, the         *)
(* exception names auth_id and the user ID it already has; the user_id     *)
(* collision is raised only when lookup_user_id(auth_id) is absent.        *)
C12_AuthIdCollisionFirst ==
    last.op = "associate"
    => LET auth_id == last.pairs[1][1]
           user_id == last.pairs[1][2]
           user_id_collision == get_user_id_from_auth_id(identifiers0, auth_id)
           auth_id_collision == get_auth_id_from_user_id(details0, user_id)
       IN  /\ (user_id_collision # None /\ auth_id_collision # None)
              => last.raised =
                     Exception("auth_id", <<<<auth_id, user_id_collision>>>>)
           /\ last.raised.kind = "user_id"
              => /\ user_id_collision = None
                 /\ last.raised =
                     Exception("user_id", <<<<user_id, auth_id_collision>>>>)

\* associate raised for a pair whose two keys were both taken
C12_Witness ==
    /\ last.op = "associate"
    /\ get_user_id_from_auth_id(identifiers0, last.pairs[1][1]) # None
    /\ get_auth_id_from_user_id(details0, last.pairs[1][2]) # None
    /\ last.raised.kind = "auth_id"

\* Lists of at most MaxBatch IDs, the empty list included
IdLists(S) == UNION {[1..n -> S] : n \in 0..MaxBatch}

(* C13: in every reachable state, each batched lookup returns a list as    *)
(* long as its input whose i-th element is what the single lookup returns  *)
(* for the i-th ID, None where there is no association.                    *)
C13_BatchedLookupsAgree ==
    /\ \A user_ids \in IdLists(UserIds) :
          LET auth_ids == get_multi_auth_ids_from_user_ids(details, user_ids)
          IN  /\ Len(auth_ids) = Len(user_ids)
              /\ \A i \in DOMAIN user_ids :
                    auth_ids[i] = get_auth_id_from_user_id(details, user_ids[i])
    /\ \A auth_ids \in IdLists(AuthIds) :
          LET user_ids ==
                  get_multi_user_ids_from_auth_ids(identifiers, auth_ids)
          IN  /\ Len(user_ids) = Len(auth_ids)
              /\ \A i \in DOMAIN auth_ids :
                    user_ids[i]
                        = get_user_id_from_auth_id(identifiers, auth_ids[i])

\* one user is tombstoned and another associated: the batched lookups
\* return None and an auth ID for them, and a user ID for a tombstoned
\* auth ID
C13_Witness ==
    \E u, v \in UserIds :
        /\ details[u].deleted /\ details[u].gae_id # None
        /\ identifiers[details[u].gae_id].deleted
        /\ ~details[v].deleted /\ details[v].gae_id # None
        /\ get_multi_auth_ids_from_user_ids(details, <<u, v>>)
               = <<None, details[v].gae_id>>
        /\ get_multi_user_ids_from_auth_ids(
               identifiers, <<details[u].gae_id, details[v].gae_id>>)
               = <<u, v>>

(* C14: mark_user_for_deletion(user_id) leaves the UserAuthDetailsModel of *)
(* user_id tombstoned if there is one, and the UserIdentifiersModel keyed  *)
(* by its auth ID tombstoned if there is one; it changes nothing when      *)
(* there is no UserAuthDetailsModel of user_id and no UserIdentifiersModel *)
(* with that user ID.                                                      *)
C14_DeletionTombstonesBoth ==
    last.op = "mark_user_for_deletion"
    => LET user_id == last.user_id
           gae_id == details0[user_id].gae_id
       IN  /\ details0[user_id].exists => details[user_id].deleted
           /\ (/\ details0[user_id].exists
               /\ gae_id # None
               /\ identifiers0[gae_id].exists)
              => identifiers[gae_id].deleted
           /\ (/\ ~details0[user_id].exists
               /\ get_by_user_id(identifiers0, user_id) = {})
              => /\ identifiers = identifiers0
                 /\ details = details0

\* a deletion of a user without any record changed nothing, and the next
\* deletion tombstoned both records of another user
C14_Witness ==
    /\ last.op = "mark_user_for_deletion"
    /\ details0[last.user_id].exists
    /\ ~details0[last.user_id].deleted
    /\ details0[last.user_id].gae_id # None
    /\ ~identifiers0[details0[last.user_id].gae_id].deleted
    /\ details[last.user_id].deleted
    /\ identifiers[details0[last.user_id].gae_id].deleted
    /\ prev.op = "mark_user_for_deletion"
    /\ prev.user_id # last.user_id
    /\ ~details0[prev.user_id].exists
    /\ get_by_user_id(identifiers0, prev.user_id) = {}

(* C19: from one completed call to the next, a UserIdentifiersModel that   *)
(* exists keeps its user ID, whichever of associate, associate_multi and   *)
(* mark_user_for_deletion is called.                                       *)
C19_IdentifiersWriteOnce ==
    \A a \in AuthIds :
        identifiers0[a].exists
        => /\ identifiers[a].exists
           /\ identifiers[a].user_id = identifiers0[a].user_id

\* associate of a tombstoned auth ID with another user raised
C19_Witness ==
    /\ last.op = "associate"
    /\ last.raised.kind = "auth_id"
    /\ identifiers0[last.pairs[1][1]].deleted
    /\ identifiers0[last.pairs[1][1]].user_id # last.pairs[1][2]
    /\ identifiers[last.pairs[1][1]] = identifiers0[last.pairs[1][1]]

(* C20 as stated: mark_user_for_deletion(user_id) changes no record but    *)
(* the UserAuthDetailsModel keyed by user_id and UserIdentifiersModels     *)
(* whose user ID is user_id.                                               *)
C20_DeletionTouchesOwnRecordsOnly ==
    last.op = "mark_user_for_deletion"
    => /\ \A u \in UserIds \ {last.user_id} : details[u] = details0[u]
       /\ \A a \in AuthIds :
             identifiers[a] # identifiers0[a]
             => identifiers0[a].user_id = last.user_id

(* C20 amended: mark_user_for_deletion(user_id) changes no record but the  *)
(* UserAuthDetailsModel keyed by user_id and one UserIdentifiersModel:     *)
(* the one keyed by the auth ID of that UserAuthDetailsModel when it is    *)
(* readable, whatever user ID it holds, and otherwise one whose user ID    *)
(* is user_id, found by the query.                                         *)
C20_DeletionTouchesKeyedOrQueried ==
    last.op = "mark_user_for_deletion"
    => LET user_id == last.user_id
           readable == details0[user_id].exists /\ ~details0[user_id].deleted
       IN  /\ \A u \in UserIds \ {user_id} : details[u] = details0[u]
           /\ Cardinality({a \in AuthIds :
                              identifiers[a] # identifiers0[a]}) <= 1
           /\ \A a \in AuthIds :
                 identifiers[a] # identifiers0[a]
                 => IF readable THEN a = details0[user_id].gae_id
                    ELSE identifiers0[a].user_id = user_id

\* a deletion of a user whose UserAuthDetailsModel was tombstoned rewrote
\* a UserIdentifiersModel of that user, found by the query
C20_Witness ==
    /\ last.op = "mark_user_for_deletion"
    /\ details0[last.user_id].deleted
    /\ \E a \in AuthIds :
          /\ identifiers[a] # identifiers0[a]
          /\ identifiers0[a].user_id = last.user_id
          /\ a # details0[last.user_id].gae_id

\* C15: every destroy_auth_session appends exactly three Set-Cookie
\* directives to the response headers and leaves the earlier ones alone:
\* one for each of ACSID, SACSID and dev_appserver_login, in that order,
\* each with an empty value and an expiry one day before the clock reading
\* it was built from, which is strictly earlier than the time of the call;
\* this holds whether or not a user is signed in.
C15_DestroyAppendsThreeExpired ==
    utcnow_reads # <<>> =>
        /\ Len(headers) = Len(headers0) + 3
        /\ SubSeq(headers, 1, Len(headers0)) = headers0
        /\ \A i \in 1..3 :
            LET header == headers[Len(headers0) + i]
            IN  /\ header[1] = "Set-Cookie"
                /\ header[2].name = CookieNames[i]
                /\ header[2].value = ""
                /\ header[2].expires
                      = strftime(utcnow_reads[i] - timedelta(1))
                /\ header[2].expires * TicksPerSecond < utcnow_reads[1]
        /\ {CookieNames[i] : i \in 1..3}
              = {"ACSID", "SACSID", "dev_appserver_login"}
        /\ Cardinality({CookieNames[i] : i \in 1..3}) = 3

\* A response has had its cookies cleared twice, once with a user signed in
\* and once, later and while the clock moved during the call, with nobody
\* signed in.
C15_Witness ==
    /\ utcnow_reads # <<>>
    /\ gae_user = None
    /\ Len(headers0) = 3
    /\ Len(headers) = 6
    /\ utcnow_reads[1] < utcnow_reads[3]
    /\ headers[1][2].expires < headers[4][2].expires

\* Every request outside the set S has not called the service
OthersIdle(S) == \A r \in Procs \ S : procs[r].status = "idle"

\* C16: in every execution of associate_multi_auth_ids_with_user_ids the
\* first two datastore calls are the multi-get of the UserIdentifiersModels
\* by auth ID and then the multi-get of the UserAuthDetailsModels by user
\* ID, so both collision reads are complete before the first write; and
\* the bulk write of the UserIdentifiersModels precedes the bulk write of
\* the UserAuthDetailsModels.
C16_ReadPassBeforeWritePass ==
    \A p \in Procs :
        procs[p].op = "associate_multi" =>
            LET trace == procs[p].trace
            IN  /\ \A i \in DOMAIN trace :
                      trace[i].verb = "put" =>
                          /\ i > 2
                          /\ trace[1] = Access("get", "identifiers")
                          /\ trace[2] = Access("get", "details")
                /\ \A j \in DOMAIN trace :
                      trace[j] = Access("put", "details") =>
                          \E i \in 1..(j - 1) :
                              trace[i] = Access("put", "identifiers")
                /\ \A i, j \in DOMAIN trace :
                      /\ trace[i] = Access("put", "identifiers")
                      /\ trace[j] = Access("put", "details")
                      => i < j

\* A batch call has returned after both bulk writes while another request
\* was in the middle of its own call.
C16_Witness ==
    \E p, q \in Procs :
        /\ procs[p].op = "associate_multi"
        /\ procs[p].status = "returned"
        /\ \E i, j \in DOMAIN procs[p].trace :
              /\ procs[p].trace[i] = Access("put", "identifiers")
              /\ procs[p].trace[j] = Access("put", "details")
        /\ procs[q].status = "running"
        /\ procs[q].trace # <<>>

\* The UserIdentifiersModel of auth_id holds user_id while no auth ID is
\* found for user_id
OneSided(auth_id, user_id) ==
    /\ get_user_id_from_auth_id(identifiers, auth_id) = user_id
    /\ get_auth_id_from_user_id(details, user_id) = None

\* C17: (1) when a process stops inside associate(auth_id, user_id) between
\* the two writes and no other request has run, the UserIdentifiersModel of
\* auth_id holds user_id while the lookup of the auth ID of user_id finds
\* nothing; (2) no UserAuthDetailsModel ever points to an auth ID that has no
\* UserIdentifiersModel; (3) an associate(auth_id, user_id) called after
\* such a crash ends with an auth_id collision and leaves the mapping
\* one-sided.
C17_CrashLeavesOneSidedMapping ==
    /\ \A p \in Procs : \A pair \in AuthIdUserIdPair :
          CrashedBetweenWritesBy(p, pair) /\ OthersIdle({p})
              => OneSided(pair[1], pair[2])
    /\ \A user_id \in UserIds :
          details[user_id].exists /\ details[user_id].gae_id # None
              => identifiers[details[user_id].gae_id].exists
    /\ \A p, q \in Procs :
          /\ procs[q].retries_crashed
          /\ procs[q].status \in {"returned", "raised"}
          /\ CrashedBetweenWritesBy(p, procs[q].pairs[1])
          /\ OthersIdle({p, q})
          => /\ procs[q].status = "raised"
             /\ procs[q].raised =
                   Exception("auth_id", <<procs[q].pairs[1]>>)
             /\ procs[q].trace = <<Access("get", "identifiers")>>
             /\ OneSided(procs[q].pairs[1][1], procs[q].pairs[1][2])

\* A process stopped between the two writes of associate, and the same
\* association, called again afterwards, raised the auth_id collision.
C17_Witness ==
    \E p, q \in Procs :
        /\ procs[q].retries_crashed
        /\ procs[q].status = "raised"
        /\ CrashedBetweenWritesBy(p, procs[q].pairs[1])
        /\ procs[q].raised.kind = "auth_id"
        /\ OneSided(procs[q].pairs[1][1], procs[q].pairs[1][2])

\* Two requests have both returned from associate without an exception, for
\* the same auth ID and different user IDs, p having written the
\* UserIdentifiersModel before q, and no other request has run
BothAssociated(p, q) ==
    /\ p # q
    /\ procs[p].op = "associate"
    /\ procs[q].op = "associate"
    /\ procs[p].status = "returned"
    /\ procs[q].status = "returned"
    /\ procs[p].pairs[1][1] = procs[q].pairs[1][1]
    /\ procs[p].pairs[1][2] # procs[q].pairs[1][2]
    /\ procs[p].put_at < procs[q].put_at
    /\ OthersIdle({p, q})

\* C18: when two associate calls for the same auth ID and different user
\* IDs have both completed without a collision error, the
\* UserIdentifiersModel of the auth ID holds the user ID of the call that
\* wrote it last, and the UserAuthDetailsModels of both users hold the
\* auth ID.
C18_LastWriteWins ==
    \A p, q \in Procs :
        BothAssociated(p, q) =>
            LET auth_id == procs[p].pairs[1][1]
            IN  /\ identifiers[auth_id].exists
                /\ identifiers[auth_id].user_id = procs[q].pairs[1][2]
                /\ identifiers[auth_id].last_updated = procs[q].put_at
                /\ get_auth_id_from_user_id(details, procs[p].pairs[1][2])
                      = auth_id
                /\ get_auth_id_from_user_id(details, procs[q].pairs[1][2])
                      = auth_id

\* Two concurrent associate calls for one auth ID and two users have both
\* passed the collision checks and returned.
C18_Witness ==
    \E p, q \in Procs :
        /\ BothAssociated(p, q)
        /\ procs[p].raised = NoException
        /\ procs[q].raised = NoException
        /\ identifiers[procs[p].pairs[1][1]].user_id = procs[q].pairs[1][2]

====
